---- MODULE Spec2Model ----
(***************************************************************************)
(* Model of the camera transfer simulator, apxfr/src/harness.py: the       *)
(* parent process forks one child per CCD; every child runs simulate(),    *)
(* which builds an Uploader and a Waiter and then, for each exposure,      *)
(* waits for its wall-clock instant, copies the input file into a private  *)
(* temporary directory and transfers it.                                   *)
(***************************************************************************)
EXTENDS Integers, Sequences, FiniteSets, TLC

VARIABLES
    args,     \* parsed command line (and the node number of the host)
    now,      \* the wall clock, in seconds since local midnight of day 0
    ticks,    \* number of clock advances so far (bounds the run)
    proc,     \* pid -> process state (parent and forked children)
    nextPid,  \* the pid the next os.fork() returns
    dirs,     \* names of the temporary directories that exist
    files,    \* <<directory, path>> pairs of the files that exist
    runs      \* for two separate invocations of the program that are
              \* compared: start time, --numexp, loop index and the sequence
              \* numbers used so far (empty when one invocation is run)

vars == <<args, now, ticks, proc, nextPid, dirs, files, runs>>

----------------------------------------------------------------------------
(* Bounds of the model *)

MaxNumExp == 2
MaxTicks == 2
MaxRunExp == 11

(* Program constants *)

SecondsPerMinute == 60
SecondsPerHour == 3600
SecondsPerDay == 86400
SeqnumScale == 10
SeqnumWidth == 5
ParentPid == 1


(* Inputs *)

\* --ccds: the numbers of CCDs that are run (three concurrent units and more
\* are beyond what can be enumerated)
CcdCounts == { 0, 1, 2 }
MaxCcds == Cardinality(CcdCounts) - 1

\* room for one process more than main() is meant to fork
MaxProcs == ParentPid + MaxCcds + 1
Pids == ParentPid .. MaxProcs
DirNames == 1 .. MaxCcds

\* HH:MM strings, as a pair of digit sequences
StartTimes == { << <<1, 0>>, <<0, 0>> >> }
Intervals == { 17 }
InitClocks == { 35980, 86390 }
TickSteps == { 20 }
Schemes == { "http", "scp", "ftp" }
NodeNums == { 0 }

----------------------------------------------------------------------------
(* Pure helpers *)

RECURSIVE IntOf(_)
\* int(s) of a string of decimal digits
IntOf(ds) ==
    IF ds = << >> THEN 0
    ELSE IntOf(SubSeq(ds, 1, Len(ds) - 1)) * 10 + ds[Len(ds)]

RECURSIVE Digits(_)
\* the decimal digits of n >= 0, most significant first
Digits(n) ==
    IF n < 10 THEN << n >> ELSE Digits(n \div 10) \o << n % 10 >>

RECURSIVE ZeroPad(_, _)
ZeroPad(ds, w) == IF Len(ds) >= w THEN ds ELSE ZeroPad(<< 0 >> \o ds, w)

\* f"{n:05d}"
Fmt05d(n) == ZeroPad(Digits(n), SeqnumWidth)

\* simulate: seqnum_start = int(hour + minute) * 10
SeqnumStart(starttime) == IntOf(starttime[1] \o starttime[2]) * SeqnumScale

\* a sequence number that does not advance with the exposure
SeqnumMut(starttime, name, i) == SeqnumStart(starttime)

\* simulate: seqnum = seqnum_start + i
Seqnum(starttime, name, i) == SeqnumStart(starttime) + i

\* the calendar day of an instant (datetime.now() truncated to its date)
DayOf(t) == t \div SecondsPerDay

\* Waiter.__init__: now.replace(hour, minute, second=0, microsecond=0)
BaseTime(t, hour, minute) ==
    DayOf(t) * SecondsPerDay + hour * SecondsPerHour + minute * SecondsPerMinute

\* Waiter.wait_exposure: when = base_time + timedelta(seconds=num * interval)
When(base_time, interval, num) == base_time + num * interval

\* the difference taken the wrong way round
DelayMut(when, t) == t - when

\* Waiter.wait_exposure: delay = (when - datetime.now()).total_seconds()
Delay(when, t) == when - t

----------------------------------------------------------------------------
(* Destination URIs and uploaders *)

\* a destination "<scheme>://<rest>"; scheme "" stands for a string with no
\* scheme prefix (what is left after dest[len("<scheme>://"):])
Destination(scheme) == [scheme |-> scheme, rest |-> "host/path"]
Destinations == { Destination(s) : s \in Schemes }

\* dest.startswith("<scheme>://")
StartsWith(dest, scheme) == dest.scheme = scheme

\* dest[len("<scheme>://"):]
Strip(dest) == [scheme |-> "", rest |-> dest.rest]

NoUploader == [cls |-> "none", dest |-> Strip(Destination("")), inst |-> 0]

\* a dispatch that takes whatever it does not know for an scp destination
UploaderCreateMut(dest) ==
    IF StartsWith(dest, "https") \/ StartsWith(dest, "http")
    THEN [cls |-> "HttpUploader", dest |-> dest]
    ELSE [cls |-> "ScpUploader", dest |-> Strip(dest)]

\* Uploader.create: the class chosen for a destination and the argument its
\* constructor is given, or cls "RuntimeError" for an unrecognized URL
UploaderCreate(dest) ==
    IF StartsWith(dest, "gsapi") THEN [cls |-> "GsapiUploader", dest |-> Strip(dest)]
    ELSE IF StartsWith(dest, "boto") THEN [cls |-> "GsapiUploader", dest |-> Strip(dest)]
    ELSE IF StartsWith(dest, "minio") THEN [cls |-> "GsapiUploader", dest |-> Strip(dest)]
    ELSE IF StartsWith(dest, "https") \/ StartsWith(dest, "http")
        THEN [cls |-> "HttpUploader", dest |-> dest]
    ELSE IF StartsWith(dest, "bbcp") THEN [cls |-> "HttpUploader", dest |-> Strip(dest)]
    ELSE IF StartsWith(dest, "scp") THEN [cls |-> "ScpUploader", dest |-> Strip(dest)]
    ELSE [cls |-> "RuntimeError", dest |-> dest]

\* what the constructors can meet: "ok", or "error" (a failing import, missing
\* credentials for storage.Client(), ...); a failing priming download of
\* GsapiUploader is caught and ignored
CtorEnvs == { "ok", "error" }

\* the outcome of transfer() of an uploader for a staged file: exists says
\* whether temp_dir / source is there, env whether the remote side accepts.
\* GsapiUploader: upload_from_filename raises on a missing file or a failed
\* upload.  HttpUploader: open() raises on a missing file, session.put on a
\* URL without scheme or a dead connection, raise_for_status on a bad status.
\* ScpUploader: open() raises on a missing file; the exit status of ssh is
\* not looked at.
TransferEnvs == { "ok", "fail" }
TransferResult(uploader, exists, env) ==
    IF ~exists
    THEN [raised |-> TRUE, err |-> "FileNotFoundError", delivered |-> FALSE]
    ELSE IF uploader.cls = "HttpUploader" /\ ~StartsWith(uploader.dest, "http")
                                          /\ ~StartsWith(uploader.dest, "https")
    THEN [raised |-> TRUE, err |-> "MissingSchema", delivered |-> FALSE]
    ELSE IF env = "ok"
    THEN [raised |-> FALSE, err |-> "", delivered |-> TRUE]
    ELSE IF uploader.cls = "ScpUploader"
    THEN [raised |-> FALSE, err |-> "", delivered |-> FALSE]
    ELSE [raised |-> TRUE, err |-> "TransferError", delivered |-> FALSE]

----------------------------------------------------------------------------
(* Artifact paths and staging *)

NoPath == [date_dir |-> 0, exp_day |-> 0, exp_seq |-> << >>, tag |-> "",
           day |-> 0, seq |-> << >>, sep |-> "", ccd |-> << 0, 0 >>,
           suffix |-> ""]

\* a path whose day is read from the clock when the exposure is staged
DestPathMut(obs_day_str, obs_day, seqnum, ccd_name) ==
    [date_dir |-> DayOf(now),
     exp_day |-> DayOf(now), exp_seq |-> Fmt05d(seqnum),
     tag |-> "MC", day |-> DayOf(now), seq |-> Fmt05d(seqnum),
     sep |-> "_", ccd |-> ccd_name, suffix |-> ".fits"]

\* simulate: Path(obs_day_str).joinpath(f"{obs_day}{seqnum:05d}",
\*                      f"MC_O_{obs_day}_{seqnum:05d}_{ccd_name}.fits")
\* a day number stands for its rendering by strftime
DestPath(obs_day_str, obs_day, seqnum, ccd_name) ==
    [date_dir |-> obs_day_str,
     exp_day |-> obs_day, exp_seq |-> Fmt05d(seqnum),
     tag |-> "MC", day |-> obs_day, seq |-> Fmt05d(seqnum),
     sep |-> "_", ccd |-> ccd_name, suffix |-> ".fits"]

\* dest.with_suffix(".fits.fz")
WithSuffix(path, suffix) == [path EXCEPT !.suffix = suffix]

\* what copy() can meet: "ok"; "mkdir_error" (mkdir raises OSError);
\* "cp_fails" (cp exits non-zero, the file is not there, and so fpack fails
\* too); "fpack_fails" (fpack exits non-zero and leaves no .fz file);
\* "fpack_missing" (subprocess.run cannot start fpack and raises)
CopyEnvs(compress) ==
    { "ok", "mkdir_error", "cp_fails" }
        \cup (IF compress THEN { "fpack_fails", "fpack_missing" } ELSE { })

\* copy(source, temp, dest, compress): whether it raises, the files it
\* leaves in temp, and the path it returns.  subprocess.run is called
\* without check=True, so a non-zero exit of cp or fpack is not an error.
CopyResult(dest, compress, env) ==
    IF env = "mkdir_error"
    THEN [raised |-> TRUE, err |-> "OSError", made |-> { }, ret |-> NoPath]
    ELSE LET copied == IF env = "cp_fails" THEN { } ELSE { dest }
         IN  IF ~compress
             THEN [raised |-> FALSE, err |-> "", made |-> copied, ret |-> dest]
             ELSE IF env = "fpack_missing"
             THEN [raised |-> TRUE, err |-> "FileNotFoundError",
                   made |-> copied, ret |-> NoPath]
             ELSE [raised |-> FALSE, err |-> "",
                   made |-> copied \cup
                            (IF env = "ok"
                             THEN { WithSuffix(dest, ".fits.fz") } ELSE { }),
                   ret |-> WithSuffix(dest, ".fits.fz")]

----------------------------------------------------------------------------
(* Processes *)

\* what a unit remembers of its last call of wait_exposure: the exposure,
\* whether its instant was already past at the call, whether it slept
NoWait == [num |-> -1, past |-> FALSE, slept |-> FALSE]

\* one entry of a unit's record of the operations it attempted; ok says that
\* the operation returned (raised no exception)
LogEntry(op, i, seqnum, inst, ok) ==
    [op |-> op, i |-> i, seqnum |-> seqnum, inst |-> inst, ok |-> ok]

\* a process that does not exist yet
Unborn ==
    [pc |-> "unborn", ppid |-> 0, status |-> -1, error |-> "",
     ccd |-> 0, jobs |-> << >>, job |-> 1,
     name |-> << 0, 0 >>, seqnum_start |-> -1, uploader |-> NoUploader,
     ncreated |-> 0, base_time |-> -1, obs_day |-> -1, temp_dir |-> 0,
     i |-> 0, wake |-> -1, dest_path |-> NoPath, wait |-> NoWait,
     log |-> << >>]

\* the process that runs main()
Parent == [Unborn EXCEPT !.pc = "fork"]

\* program points of simulate()
SimulatePcs ==
    { "simulate", "waiter", "obsday", "loop", "sleeping", "copy",
      "transfer" }

Exists(p) == proc[p].pc # "unborn"
Exited(p) == proc[p].pc = "exited"
\* the processes that were forked to run simulate()
Units == { p \in Pids : Exists(p) /\ proc[p].ppid # 0 }

\* a directory whose files are left behind
CleanupMut(d) == files

\* the files of a TemporaryDirectory are removed when its with block is left
Cleanup(d) == { f \in files : f[1] # d }

\* an exception in the body of the exposure loop that makes the unit try the
\* exposure again
TerminateMut(pr, status, err) ==
    IF pr.pc \in { "copy", "transfer" } /\ status # 0
    THEN [pr EXCEPT !.pc = "copy"]
    ELSE [pr EXCEPT !.pc = "exited", !.status = status, !.error = err,
                    !.wait = NoWait]

\* how the process ends when exit(status) is called or an exception leaves
\* main(): nothing of it runs any more
Terminate(pr, status, err) ==
    [pr EXCEPT !.pc = "exited", !.status = status, !.error = err,
               !.wait = NoWait]

\* an exception raised in simulate() is caught nowhere: it leaves the with
\* block (removing the temporary directory, if it was made), simulate() and
\* main(), and the interpreter exits with status 1
Raise(p, err, entry) ==
    /\ proc' = [proc EXCEPT ![p] =
                  Terminate([proc[p] EXCEPT !.log = Append(@, entry)], 1, err)]
    /\ dirs' = dirs \ { proc[p].temp_dir }
    /\ files' = Cleanup(proc[p].temp_dir)

TypeOK ==
    /\ args.ccds \in CcdCounts
    /\ args.numexp \in 0 .. MaxNumExp
    /\ now \in Nat
    /\ ticks \in 0 .. MaxTicks
    /\ nextPid \in Pids \cup { MaxProcs + 1 }
    /\ dirs \subseteq DirNames
    /\ \A p \in Pids :
         proc[p].pc \in { "unborn", "fork", "join", "sleep_forever", "exited" }
                            \cup SimulatePcs

\* main() is entered: one process, no temporary directory yet
Started ==
    /\ ticks = 0
    /\ proc = [p \in Pids |-> IF p = ParentPid THEN Parent ELSE Unborn]
    /\ nextPid = ParentPid + 1
    /\ dirs = { }
    /\ files = { }

Init ==
    /\ args \in [destination : Destinations,
                 starttime : StartTimes,
                 numexp : 0 .. MaxNumExp,
                 ccds : CcdCounts,
                 interval : Intervals,
                 compress : BOOLEAN,
                 node_num : NodeNums]
    /\ now \in InitClocks
    /\ Started
    /\ runs = << >>

\* One CCD, over more schedules: start times through the day, several
\* intervals, and the program started shortly before the start time,
\* shortly after it, or shortly before midnight
WideStartTimes ==
    { << <<0, 0>>, <<0, 0>> >>, << <<0, 9>>, <<0, 5>> >>,
      << <<1, 0>>, <<0, 0>> >>, << <<2, 3>>, <<5, 9>> >> }
WideIntervals == { 1, 17, 60 }
ClocksAround(starttime) ==
    LET base == BaseTime(0, IntOf(starttime[1]), IntOf(starttime[2]))
    IN  { t \in { base - 20, base + 30, SecondsPerDay - 10 } : t >= 0 }

InitWide ==
    /\ args \in [destination : { Destination("http") },
                 starttime : WideStartTimes,
                 numexp : 0 .. MaxNumExp,
                 ccds : { 1 },
                 interval : WideIntervals,
                 compress : { FALSE },
                 node_num : NodeNums]
    /\ now \in ClocksAround(args.starttime)
    /\ Started
    /\ runs = << >>

----------------------------------------------------------------------------
(* main(): fan-out *)

\* a child that builds its Waiter before it has an uploader
ChildMut(pr, ppid) ==
    [pr EXCEPT !.pc = "waiter", !.ppid = ppid,
               !.name = << args.node_num, pr.ccd >>]

\* the state of the child after os.fork() returned 0 in it: a copy of the
\* forking process, about to call simulate(f"{node_num}-{ccd}", ...)
Child(pr, ppid) ==
    [pr EXCEPT !.pc = "simulate", !.ppid = ppid,
               !.name = << args.node_num, pr.ccd >>]

\* for ccd in range(args.ccds): pid = os.fork(); ... jobs.append(pid)
Fork(p) ==
    /\ proc[p].pc = "fork"
    /\ proc[p].ccd < args.ccds
    /\ nextPid <= MaxProcs
    /\ proc' = [proc EXCEPT ![p].jobs = Append(@, nextPid),
                            ![p].ccd = @ + 1,
                            ![nextPid] = Child(proc[p], p)]
    /\ nextPid' = nextPid + 1
    /\ UNCHANGED << runs, args, now, ticks, dirs, files >>

\* the fork loop is exhausted
ForkDone(p) ==
    /\ proc[p].pc = "fork"
    /\ proc[p].ccd >= args.ccds
    /\ proc' = [proc EXCEPT ![p].pc = "join", ![p].job = 1]
    /\ UNCHANGED << runs, args, now, ticks, nextPid, dirs, files >>

\* a wait that does not block (os.WNOHANG)
WaitpidReturnsMut(job) == TRUE

\* os.waitpid(job, 0) returns once the child has terminated
WaitpidReturns(job) == Exited(job)

\* a parent that gives up on the first child that failed
AfterWaitpidMut(pr, status) ==
    IF status # 0 THEN Terminate(pr, 1, "ChildFailed")
    ELSE [pr EXCEPT !.job = @ + 1]

\* what the parent does with the status os.waitpid returned: nothing
AfterWaitpid(pr, status) == [pr EXCEPT !.job = @ + 1]

\* for job in jobs: os.waitpid(job, 0)
Waitpid(p) ==
    /\ proc[p].pc = "join"
    /\ proc[p].job <= Len(proc[p].jobs)
    /\ LET job == proc[p].jobs[proc[p].job]
       IN  /\ WaitpidReturns(job)
           /\ proc' = [proc EXCEPT ![p] = AfterWaitpid(@, proc[job].status)]
    /\ UNCHANGED << runs, args, now, ticks, nextPid, dirs, files >>

\* all children are joined: print("Main process sleeping"), and sleep forever
JoinDone(p) ==
    /\ proc[p].pc = "join"
    /\ proc[p].job > Len(proc[p].jobs)
    /\ proc' = [proc EXCEPT ![p].pc = "sleep_forever"]
    /\ UNCHANGED << runs, args, now, ticks, nextPid, dirs, files >>

----------------------------------------------------------------------------
(* simulate(): one unit *)

\* hour, minute = starttime.split(":"); seqnum_start = ...;
\* uploader = Uploader.create(destination)
Create(p) ==
    /\ proc[p].pc = "simulate"
    /\ \E env \in CtorEnvs :
         LET made == UploaderCreate(args.destination)
             inst == proc[p].ncreated + 1
         IN  IF made.cls = "RuntimeError"
             THEN Raise(p, "RuntimeError",
                        LogEntry("create", -1, -1, 0, FALSE))
             ELSE IF env = "error"
             THEN Raise(p, "ConstructorError",
                        LogEntry("create", -1, -1, 0, FALSE))
             ELSE /\ proc' = [proc EXCEPT
                       ![p].seqnum_start = SeqnumStart(args.starttime),
                       ![p].uploader = [cls |-> made.cls, dest |-> made.dest,
                                        inst |-> inst],
                       ![p].ncreated = inst,
                       ![p].log = Append(@, LogEntry("create", -1, -1, inst,
                                                     TRUE)),
                       ![p].pc = "waiter"]
                  /\ UNCHANGED << dirs, files >>
    /\ UNCHANGED << runs, args, now, ticks, nextPid >>

\* waiter = Waiter(int(hour), int(minute), interval)
MkWaiter(p) ==
    /\ proc[p].pc = "waiter"
    /\ proc' = [proc EXCEPT
          ![p].base_time = BaseTime(now, IntOf(args.starttime[1]),
                                    IntOf(args.starttime[2])),
          ![p].pc = "obsday"]
    /\ UNCHANGED << runs, args, now, ticks, nextPid, dirs, files >>

\* one fixed staging directory for every unit
FreshDirMut(existing) == CHOOSE d \in DirNames : \A e \in DirNames : d <= e

\* tempfile.mkdtemp: a name that no existing directory has.  The names are
\* tokens, so the first free one stands for any of them; a name whose
\* directory was removed is free again.
FreshDir(existing) ==
    CHOOSE d \in DirNames \ existing : \A e \in DirNames \ existing : d <= e

\* now = datetime.now(); obs_day = ...; obs_day_str = ...;
\* with tempfile.TemporaryDirectory(dir=tempdir) as temp_dir:
ObsDay(p) ==
    /\ proc[p].pc = "obsday"
    /\ DirNames \ dirs # { }
    /\ LET d == FreshDir(dirs)
       IN  /\ dirs' = dirs \cup { d }
           /\ proc' = [proc EXCEPT ![p].obs_day = DayOf(now),
                                   ![p].temp_dir = d, ![p].i = 0,
                                   ![p].pc = "loop"]
    /\ UNCHANGED << runs, args, now, ticks, nextPid, files >>

\* Waiter.wait_exposure: if delay < 0: "Late", return
IsLate(delay) == delay < 0

\* time.sleep(delay), called at instant t, does not return before t + delay
SleepUntil(t, delay) == t + delay

\* a loop body that goes from the wait straight to the transfer
AfterWaitMut(pr) == [pr EXCEPT !.pc = "transfer"]

\* the state of the unit when wait_exposure has returned
AfterWait(pr) == [pr EXCEPT !.pc = "copy"]

\* a loop that drops an exposure whose instant is past
WaitExposureMut(p) ==
    /\ proc[p].pc = "loop"
    /\ proc[p].i < args.numexp
    /\ LET when == When(proc[p].base_time, args.interval, proc[p].i)
           delay == Delay(when, now)
           entry == LogEntry("wait", proc[p].i, -1, 0, TRUE)
           called == [proc[p] EXCEPT
                        !.log = Append(@, entry),
                        !.wait = [num |-> proc[p].i, past |-> when < now,
                                  slept |-> FALSE]]
       IN  proc' = [proc EXCEPT ![p] =
                      IF IsLate(delay)
                      THEN [called EXCEPT !.i = @ + 1, !.wait = NoWait]
                      ELSE [called EXCEPT !.pc = "sleeping",
                                          !.wait.slept = TRUE,
                                          !.wake = SleepUntil(now, delay)]]
    /\ UNCHANGED << runs, args, now, ticks, nextPid, dirs, files >>

\* for i in range(numexp): waiter.wait_exposure(i), up to its return or to
\* its call of time.sleep
WaitExposure(p) ==
    /\ proc[p].pc = "loop"
    /\ proc[p].i < args.numexp
    /\ LET when == When(proc[p].base_time, args.interval, proc[p].i)
           delay == Delay(when, now)
           entry == LogEntry("wait", proc[p].i, -1, 0, TRUE)
           called == [proc[p] EXCEPT
                        !.log = Append(@, entry),
                        !.wait = [num |-> proc[p].i, past |-> when < now,
                                  slept |-> FALSE]]
       IN  proc' = [proc EXCEPT ![p] =
                      IF IsLate(delay)
                      THEN AfterWait(called)
                      ELSE [called EXCEPT !.pc = "sleeping",
                                          !.wait.slept = TRUE,
                                          !.wake = SleepUntil(now, delay)]]
    /\ UNCHANGED << runs, args, now, ticks, nextPid, dirs, files >>

\* time.sleep(delay) returns
WakeUp(p) ==
    /\ proc[p].pc = "sleeping"
    /\ now >= proc[p].wake
    /\ proc' = [proc EXCEPT ![p] = AfterWait(@)]
    /\ UNCHANGED << runs, args, now, ticks, nextPid, dirs, files >>

\* seqnum = seqnum_start + i; dest_path = ...;
\* dest_path = copy(source_path, temp_path, dest_path, compress)
Copy(p) ==
    /\ proc[p].pc = "copy"
    /\ \E env \in CopyEnvs(args.compress) :
         LET seqnum == Seqnum(args.starttime, proc[p].name, proc[p].i)
             dest == DestPath(proc[p].obs_day, proc[p].obs_day, seqnum,
                              proc[p].name)
             res == CopyResult(dest, args.compress, env)
             entry == LogEntry("copy", proc[p].i, seqnum, 0, ~res.raised)
         IN  IF res.raised
             THEN Raise(p, res.err, entry)
             ELSE /\ proc' = [proc EXCEPT ![p].dest_path = res.ret,
                                          ![p].log = Append(@, entry),
                                          ![p].pc = "transfer"]
                  /\ files' = files \cup
                                { << proc[p].temp_dir, f >> : f \in res.made }
                  /\ dirs' = dirs
    /\ UNCHANGED << runs, args, now, ticks, nextPid >>

\* a loop that does not advance to the next exposure
AfterTransferMut(pr) == [pr EXCEPT !.pc = "loop", !.wait = NoWait]

\* the state of the unit when transfer has returned: the next iteration
AfterTransfer(pr) == [pr EXCEPT !.i = @ + 1, !.pc = "loop", !.wait = NoWait]

\* uploader.transfer(temp_path, dest_path)
Transfer(p) ==
    /\ proc[p].pc = "transfer"
    /\ \E env \in TransferEnvs :
         LET exists == << proc[p].temp_dir, proc[p].dest_path >> \in files
             res == TransferResult(proc[p].uploader, exists, env)
             entry == LogEntry("transfer", proc[p].i,
                               Seqnum(args.starttime, proc[p].name, proc[p].i),
                               proc[p].uploader.inst, ~res.raised)
         IN  IF res.raised
             THEN Raise(p, res.err, entry)
             ELSE /\ proc' = [proc EXCEPT ![p] =
                                AfterTransfer([@ EXCEPT !.log = Append(@, entry)])]
                  /\ UNCHANGED << dirs, files >>
    /\ UNCHANGED << runs, args, now, ticks, nextPid >>

\* a child that lacks the exit and falls back into the loop over the CCDs
AfterSimulateMut(pr) == [pr EXCEPT !.pc = "fork"]

\* main(), in the child, once simulate() has returned:
\* logging.info("Child process exiting"); exit(0)
AfterSimulate(pr) == Terminate(pr, 0, "")

\* range(numexp) is exhausted: the with block ends and removes the
\* temporary directory, simulate() returns and the child exits
LoopEnd(p) ==
    /\ proc[p].pc = "loop"
    /\ proc[p].i >= args.numexp
    /\ proc' = [proc EXCEPT ![p] = AfterSimulate(@)]
    /\ dirs' = dirs \ { proc[p].temp_dir }
    /\ files' = Cleanup(proc[p].temp_dir)
    /\ UNCHANGED << runs, args, now, ticks, nextPid >>

----------------------------------------------------------------------------
(* The clock *)

Tick ==
    /\ ticks < MaxTicks
    /\ \E d \in TickSteps : now' = now + d
    /\ ticks' = ticks + 1
    /\ UNCHANGED << runs, args, proc, nextPid, dirs, files >>

----------------------------------------------------------------------------
(* Two invocations of the program, for their sequence numbers *)

RunIds == { 1, 2 }

\* start times in the same hour, a minute apart, and across the hour
RunStartTimes ==
    { << <<1, 0>>, <<0, 0>> >>, << <<1, 0>>, <<0, 1>> >>,
      << <<1, 0>>, <<5, 9>> >>, << <<1, 1>>, <<0, 0>> >> }

InitRuns ==
    /\ runs \in [RunIds -> [starttime : RunStartTimes,
                            numexp : 0 .. MaxRunExp,
                            i : { 0 }, used : { { } }]]
    /\ args \in [destination : { Destination("http") },
                 starttime : StartTimes,
                 numexp : { 0 },
                 ccds : { 0 },
                 interval : Intervals,
                 compress : { FALSE },
                 node_num : NodeNums]
    /\ now = 0
    /\ Started

\* one iteration of the loop of simulate() in invocation r, for its sequence
\* number only: seqnum = seqnum_start + i
RunExposure(r) ==
    /\ r \in DOMAIN runs
    /\ runs[r].i < runs[r].numexp
    /\ runs' = [runs EXCEPT
                  ![r].used = @ \cup { Seqnum(runs[r].starttime,
                                              << 0, 0 >>, runs[r].i) },
                  ![r].i = @ + 1]
    /\ UNCHANGED << args, now, ticks, proc, nextPid, dirs, files >>

NextRuns == \E r \in RunIds : RunExposure(r)

SpecRuns == InitRuns /\ [][NextRuns]_vars

----------------------------------------------------------------------------

Step(p) ==
    \/ Fork(p) \/ ForkDone(p) \/ Waitpid(p) \/ JoinDone(p)
    \/ Create(p) \/ MkWaiter(p) \/ ObsDay(p)
    \/ WaitExposure(p) \/ WakeUp(p) \/ Copy(p) \/ Transfer(p)
    \/ LoopEnd(p)

Next == Tick \/ \E p \in Pids : Step(p)

Spec == Init /\ [][Next]_vars

\* one unit over the wider schedules
SpecWide == InitWide /\ [][Next]_vars

\* the parent is scheduled: a step main() can take is eventually taken
FairSpec == Spec /\ WF_vars(Step(ParentPid))

----------------------------------------------------------------------------
(* Properties *)

\* the entries of a unit's log for one operation
OpsOf(p, op) == SelectSeq(proc[p].log, LAMBDA e : e.op = op)

Joined == proc[ParentPid].pc = "sleep_forever"

\* C1: a unit whose backend was constructed attempts exactly numexp copies
\* and at most numexp transfers, whatever fails on the way: an exception
\* raised by copy or transfer does not end the exposure loop.
C1_AllExposuresAttempted ==
    \A p \in Units :
        (Exited(p) /\ proc[p].ncreated > 0) =>
            /\ Len(OpsOf(p, "copy")) = args.numexp
            /\ Len(OpsOf(p, "transfer")) <= args.numexp

\* C2: two units with distinct identifiers and the same schedule never use
\* the same sequence number for the same exposure index.
C2_DistinctSeqnums ==
    \A p, q \in Units :
        (p # q /\ proc[p].name # proc[q].name) =>
            \A k \in DOMAIN proc[p].log, l \in DOMAIN proc[q].log :
                LET e == proc[p].log[k]
                    f == proc[q].log[l]
                IN  (e.op = "copy" /\ f.op = "copy" /\ e.i = f.i)
                        => e.seqnum # f.seqnum

\* C3: once wait_exposure(i) has returned the clock is not before
\* base_time + i * interval, and a call made after that instant returns
\* without sleeping and without an error.
C3_WaitNotEarly ==
    \A p \in Units :
        proc[p].pc \in { "copy", "transfer" } =>
            /\ proc[p].wait.num = proc[p].i
            /\ now >= proc[p].base_time + proc[p].i * args.interval
            /\ proc[p].wait.past => ~proc[p].wait.slept

\* a unit has returned, without sleeping, from a call for a later exposure
\* whose instant was already past
C3_Witness ==
    \E p \in Units :
        /\ proc[p].pc = "copy" /\ proc[p].i > 0
        /\ proc[p].wait.past /\ ~proc[p].wait.slept
        /\ now > proc[p].base_time + proc[p].i * args.interval

\* the schemes the command line documents
RecognizedSchemes == { "gsapi", "boto", "minio", "https", "http", "bbcp", "scp" }

\* C4: with a destination of an unrecognized scheme the unit fails in
\* Uploader.create with a configuration error (RuntimeError), before the
\* Waiter is constructed and before any wait, copy or transfer; the error is
\* no transfer error.
C4_UnrecognizedFailsFirst ==
    \A p \in Units :
        args.destination.scheme \notin RecognizedSchemes =>
            /\ proc[p].pc \in { "simulate", "exited" }
            /\ proc[p].base_time = -1
            /\ proc[p].uploader = NoUploader
            /\ \A k \in DOMAIN proc[p].log : proc[p].log[k].op = "create"
            /\ Exited(p) => (proc[p].status = 1 /\ proc[p].error = "RuntimeError")

C4_Witness ==
    \E p \in Units :
        /\ args.destination.scheme \notin RecognizedSchemes
        /\ Exited(p) /\ proc[p].error = "RuntimeError"
        /\ proc[p].log = << LogEntry("create", -1, -1, 0, FALSE) >>

\* C5: main() starts exactly args.ccds units with pairwise distinct
\* identifiers, all children of the parent, and the parent is past its join
\* loop only when every one of them has terminated, normally or not.
C5_FanOut ==
    /\ Cardinality(Units) <= args.ccds
    /\ \A p, q \in Units : p # q => proc[p].name # proc[q].name
    /\ \A p \in Units : proc[p].ppid = ParentPid
    /\ Joined => /\ Cardinality(Units) = args.ccds
                 /\ \A p \in Units : Exited(p)

C5_Witness ==
    /\ Joined
    /\ \E p, q \in Units : /\ proc[p].status = 1
                           /\ proc[q].status = 0
                           /\ proc[p].name # proc[q].name

\* every unit was forked and has terminated
AllUnitsTerminated ==
    /\ proc[ParentPid].pc \in { "join", "sleep_forever" }
    /\ \A p \in Units : Exited(p)

\* C6: once every unit has terminated the parent eventually finishes the
\* join loop, whatever the exit statuses of the units, and the parent itself
\* never ends with an error.
C6_ParentFinishes ==
    /\ AllUnitsTerminated ~> Joined
    /\ [](proc[ParentPid].pc # "exited" /\ proc[ParentPid].error = "")

C6_Witness ==
    /\ Joined
    /\ \E p \in Units : proc[p].status = 1 /\ proc[p].error = "TransferError"

\* the staged files of a unit
FilesOf(p) == { f \in files : f[1] = proc[p].temp_dir }

\* the instant of its exposure has come for a sleeping unit
Due(p) == proc[p].pc = "sleeping" /\ now >= proc[p].wake

\* C7: units are independent: a step changes the state of one process only,
\* the staged files of a unit change only in its own steps, and whatever the
\* other units are doing a unit can start, can call wait_exposure when it is
\* at the head of its loop and can return from it when its instant has come.
C7_Independent ==
    /\ [][ \A p \in Units :
             (~Exited(p) /\ proc'[p] = proc[p]) => FilesOf(p)' = FilesOf(p) ]_vars
    /\ [][ \A p, q \in Pids :
             (p # q /\ Exists(p) /\ Exists(q) /\ proc'[p] # proc[p])
                 => proc'[q] = proc[q] ]_vars
    /\ [](\A p \in Units :
            /\ Due(p) => ENABLED WakeUp(p)
            /\ proc[p].pc = "loop" => ENABLED (WaitExposure(p) \/ LoopEnd(p))
            /\ proc[p].pc = "simulate" => ENABLED Create(p)
            /\ proc[p].pc = "waiter" => ENABLED MkWaiter(p)
            /\ proc[p].pc = "obsday" => ENABLED ObsDay(p))

\* a unit has failed in its transfer and another has run to its end
C7_Witness ==
    \E p, q \in Units :
        /\ Exited(p) /\ proc[p].error = "TransferError"
        /\ Exited(q) /\ proc[q].status = 0
        /\ Len(OpsOf(q, "transfer")) = args.numexp
        /\ args.numexp = MaxNumExp

\* C8: within a unit the exposures are handled one at a time in increasing
\* order: the copy and the transfer of exposure i - 1 are done when the wait
\* for exposure i begins, and the sequence numbers of the transfers attempted
\* increase strictly.
C8_Sequential ==
    \A p \in Units :
        LET log == proc[p].log
        IN  /\ \A k \in DOMAIN log :
                 (log[k].op = "wait" /\ log[k].i > 0) =>
                     /\ k > 2
                     /\ log[k - 2].op = "copy" /\ log[k - 2].i = log[k].i - 1
                     /\ log[k - 1].op = "transfer"
                     /\ log[k - 1].i = log[k].i - 1
            /\ \A k \in DOMAIN log :
                 log[k].op = "wait" =>
                     log[k].i = Len(SelectSeq(SubSeq(log, 1, k - 1),
                                              LAMBDA e : e.op = "wait"))
            /\ \A k, l \in DOMAIN log :
                 (k < l /\ log[k].op = "transfer" /\ log[l].op = "transfer")
                     => log[k].seqnum < log[l].seqnum

C8_Witness ==
    \E p \in Units :
        /\ Len(OpsOf(p, "transfer")) = MaxNumExp
        /\ OpsOf(p, "transfer")[1].seqnum < OpsOf(p, "transfer")[MaxNumExp].seqnum
        /\ MaxNumExp > 1

\* C9: the operations of a unit follow
\* STARTING -> (WAIT_EXPOSURE -> STAGE -> TRANSFER)* -> DONE: a copy comes
\* right after the wait of its exposure, a transfer right after the copy of
\* its exposure, a wait right after the start or a transfer, and the unit
\* starts (constructs its uploader) once, as its first operation.
C9_StateMachine ==
    \A p \in Units :
        LET log == proc[p].log
        IN  \A k \in DOMAIN log :
              /\ (log[k].op = "create") <=> (k = 1)
              /\ log[k].op = "wait" =>
                    /\ k > 1
                    /\ log[k - 1].op \in { "create", "transfer" }
                    /\ log[k - 1].ok \/ log[k - 1].op = "transfer"
              /\ log[k].op = "copy" =>
                    /\ k > 1
                    /\ log[k - 1].op = "wait" /\ log[k - 1].i = log[k].i
              /\ log[k].op = "transfer" =>
                    /\ k > 1
                    /\ log[k - 1].op = "copy" /\ log[k - 1].i = log[k].i
              /\ log[k].op \in { "create", "wait", "copy", "transfer" }

C9_Witness ==
    \E p \in Units :
        /\ Exited(p) /\ proc[p].status = 0
        /\ Len(proc[p].log) = 1 + 3 * MaxNumExp
        /\ MaxNumExp > 1

\* C10: when staging is asked to compress and the compression fails, copy
\* fails: it returns a path only when the compressed file is there, and the
\* path handed to transfer is the compressed one.
C10_CompressFailureFailsStaging ==
    \A p \in Units :
        (args.compress /\ proc[p].pc = "transfer") =>
            /\ proc[p].dest_path.suffix = ".fits.fz"
            /\ << proc[p].temp_dir, proc[p].dest_path >> \in files

\* C11: when the copy of exposure i fails, the unit goes on: no transfer is
\* attempted without a staged file, and the operation after a copy that
\* raised is the wait for exposure i + 1 (or the normal end of the loop).
C11_CopyFailureSkipsTransfer ==
    \A p \in Units :
        LET log == proc[p].log
        IN  /\ proc[p].pc = "transfer"
                  => << proc[p].temp_dir, proc[p].dest_path >> \in files
            /\ \A k \in DOMAIN log :
                  (log[k].op = "copy" /\ ~log[k].ok) =>
                      /\ Exited(p) => proc[p].status = 0
                      /\ k < Len(log) =>
                            /\ log[k + 1].op = "wait"
                            /\ log[k + 1].i = log[k].i + 1

\* C12: no retry: for every unit and every exposure index the copy is
\* attempted at most once and the transfer is attempted at most once, also
\* when one of them failed.
C12_NoRetry ==
    \A p \in Units :
        LET log == proc[p].log
        IN  \A k, l \in DOMAIN log :
              (k < l /\ log[k].op = log[l].op
                     /\ log[k].op \in { "copy", "transfer" })
                  => log[k].i # log[l].i

\* one unit has ended on a failed transfer and another on a failed copy,
\* both with exposures left
C12_Witness ==
    \E p, q \in Units :
        /\ args.numexp = MaxNumExp /\ MaxNumExp > 1
        /\ Exited(p) /\ proc[p].log[Len(proc[p].log)].op = "transfer"
        /\ ~proc[p].log[Len(proc[p].log)].ok
        /\ proc[p].log[Len(proc[p].log)].i = 0
        /\ Exited(q) /\ proc[q].log[Len(proc[q].log)].op = "copy"
        /\ ~proc[q].log[Len(proc[q].log)].ok
        /\ proc[q].log[Len(proc[q].log)].i = 0

\* the program points of simulate() inside its with block
StagingPcs == { "loop", "sleeping", "copy", "transfer" }

\* C13: the temporary directory of a unit is its own (no two units are in
\* their with block with the same directory), the directories and files that
\* exist are those of the units inside their with block, and when a unit
\* ends, normally or by an exception raised in the loop, its directory and
\* all its staged files are gone.
C13_StagingExclusive ==
    /\ [](\A p, q \in Units :
            (p # q /\ proc[p].pc \in StagingPcs /\ proc[q].pc \in StagingPcs)
                => proc[p].temp_dir # proc[q].temp_dir)
    /\ [](dirs = { proc[p].temp_dir :
                      p \in { u \in Units : proc[u].pc \in StagingPcs } })
    /\ [](\A f \in files : \E p \in Units :
            proc[p].pc \in StagingPcs /\ proc[p].temp_dir = f[1])
    /\ [][ \A p \in Units :
             (proc[p].pc \in StagingPcs /\ proc'[p].pc = "exited") =>
                 /\ proc[p].temp_dir \notin dirs'
                 /\ \A f \in files' : f[1] # proc[p].temp_dir ]_vars

\* a unit that had staged a file has ended on a failed transfer, another has
\* ended normally after its copies, and nothing is left
C13_Witness ==
    \E p, q \in Units :
        /\ Exited(p) /\ proc[p].error = "TransferError"
        /\ Exited(q) /\ proc[q].status = 0 /\ Len(OpsOf(q, "copy")) > 0
        /\ dirs = { } /\ files = { }

\* C14: a unit constructs its uploader exactly once, before its Waiter fixes
\* base_time and before its first wait; every transfer uses that instance,
\* which is never replaced.
C14_BackendOnce ==
    /\ [](\A p \in Units :
            LET log == proc[p].log
            IN  /\ proc[p].ncreated <= 1
                /\ Len(OpsOf(p, "create")) <= 1
                /\ (proc[p].base_time # -1
                        \/ proc[p].pc \in { "obsday" } \cup StagingPcs)
                      => /\ proc[p].ncreated = 1
                         /\ proc[p].uploader.inst = 1
                         /\ log[1] = LogEntry("create", -1, -1, 1, TRUE)
                /\ \A k \in DOMAIN log :
                      /\ log[k].op = "wait" => (k > 1 /\ log[1].op = "create")
                      /\ log[k].op = "transfer" =>
                            /\ log[k].inst = proc[p].uploader.inst
                            /\ log[k].inst = log[1].inst)
    /\ [][ \A p \in Units :
             proc[p].uploader # NoUploader
                 => proc'[p].uploader = proc[p].uploader ]_vars

\* a unit has made all its transfers with the one uploader it constructed
C14_Witness ==
    \E p \in Units :
        /\ MaxNumExp > 1
        /\ Len(OpsOf(p, "transfer")) = MaxNumExp
        /\ \A k \in 1 .. MaxNumExp : OpsOf(p, "transfer")[k].inst = 1
        /\ proc[p].ncreated = 1

\* One CCD, over every scheme the command line documents and one it does not
AllSchemes == RecognizedSchemes \cup { "ftp" }

InitSchemes ==
    /\ args \in [destination : { Destination(s) : s \in AllSchemes },
                 starttime : StartTimes,
                 numexp : 0 .. MaxNumExp,
                 ccds : { 1 },
                 interval : Intervals,
                 compress : BOOLEAN,
                 node_num : NodeNums]
    /\ now \in InitClocks
    /\ Started
    /\ runs = << >>

SpecSchemes == InitSchemes /\ [][Next]_vars

\* the family of an uploader class
Family(cls) ==
    CASE cls = "GsapiUploader" -> "object-store"
      [] cls = "HttpUploader" -> "http"
      [] cls = "ScpUploader" -> "remote-copy"
      [] OTHER -> "none"

\* the family a scheme stands for
SchemeFamily(scheme) ==
    CASE scheme \in { "gsapi", "boto", "minio" } -> "object-store"
      [] scheme \in { "http", "https" } -> "http"
      [] scheme \in { "bbcp", "scp" } -> "remote-copy"
      [] OTHER -> "unrecognized"

\* C15: the uploader a unit gets for a recognized scheme is of the family of
\* the scheme: object store for gsapi, boto and minio, HTTP PUT for http and
\* https, remote copy for bbcp and scp.
C15_DispatchByFamily ==
    \A p \in Units :
        (proc[p].uploader # NoUploader
            /\ args.destination.scheme \in RecognizedSchemes)
          => Family(proc[p].uploader.cls)
                 = SchemeFamily(args.destination.scheme)

\* C16: the path handed to copy's caller and to transfer is
\* YYYY-MM-DD/YYYYMMDD<seq>/<tag>_O_YYYYMMDD_<seq>-<ccd>.fits[.fz]: the same
\* day in its three places, <seq> the five zero-padded digits of the
\* sequence number in both places, and the CCD name joined by a hyphen.
C16_PathForm ==
    \A p \in Units :
        proc[p].pc = "transfer" =>
            LET d == proc[p].dest_path
            IN  /\ d.date_dir = proc[p].obs_day
                /\ d.exp_day = proc[p].obs_day /\ d.day = proc[p].obs_day
                /\ Len(d.seq) = SeqnumWidth
                /\ IntOf(d.seq) = proc[p].seqnum_start + proc[p].i
                /\ d.exp_seq = d.seq
                /\ d.tag # ""
                /\ d.sep = "-"
                /\ d.ccd = proc[p].name
                /\ d.suffix = IF args.compress THEN ".fits.fz" ELSE ".fits"

\* the last operation a unit has recorded
LastOp(pr) == pr.log[Len(pr.log)]

\* C17: lateness skips nothing: a unit at the head of its loop whose instant
\* for exposure i is past goes on to the copy of exposure i, the operation
\* after a late wait is the copy of that exposure, and when the copy has
\* returned the next one is the transfer of that exposure.
C17_LateNotSkipped ==
    /\ [][ \A p \in Units :
             (/\ proc[p].pc = "loop" /\ proc[p].i < args.numexp
              /\ When(proc[p].base_time, args.interval, proc[p].i) < now
              /\ proc'[p] # proc[p])
                 => /\ proc'[p].pc = "copy" /\ proc'[p].i = proc[p].i
                    /\ proc'[p].wait.past /\ ~proc'[p].wait.slept ]_vars
    /\ [][ \A p \in Units :
             (proc[p].pc = "copy" /\ proc[p].wait.past /\ proc'[p] # proc[p])
                 => /\ LastOp(proc'[p]).op = "copy"
                    /\ LastOp(proc'[p]).i = proc[p].i
                    /\ LastOp(proc'[p]).ok
                          => /\ proc'[p].pc = "transfer"
                             /\ proc'[p].i = proc[p].i ]_vars
    /\ [][ \A p \in Units :
             (proc[p].pc = "transfer" /\ proc[p].wait.past
                                     /\ proc'[p] # proc[p])
                 => /\ LastOp(proc'[p]).op = "transfer"
                    /\ LastOp(proc'[p]).i = proc[p].i ]_vars

\* a unit that was started after the instant of its last exposure, so that
\* all its waits were late, is about to transfer that exposure
C17_Witness ==
    \E p \in Units :
        /\ MaxNumExp > 1 /\ args.numexp = MaxNumExp
        /\ proc[p].pc = "transfer" /\ proc[p].i = MaxNumExp - 1
        /\ proc[p].wait.past /\ ~proc[p].wait.slept
        /\ Len(OpsOf(p, "copy")) = MaxNumExp
        /\ \E t \in InitClocks :
              /\ When(proc[p].base_time, args.interval, proc[p].i) < t
              /\ t <= now

\* C18: the obs-day of a unit is fixed before its loop: it does not change
\* while the unit runs, and every path the unit has built or staged carries
\* it in its three places, also when the clock has passed midnight since.
C18_ObsDayFixed ==
    /\ [](\A p \in Units :
            proc[p].pc \in StagingPcs =>
                \A d \in { f[2] : f \in FilesOf(p) }
                          \cup ({ proc[p].dest_path } \ { NoPath }) :
                    /\ d.date_dir = proc[p].obs_day
                    /\ d.exp_day = proc[p].obs_day
                    /\ d.day = proc[p].obs_day)
    /\ [][ \A p \in Units :
             (proc[p].pc \in StagingPcs /\ proc'[p].pc \in StagingPcs)
                 => proc'[p].obs_day = proc[p].obs_day ]_vars

\* a unit has staged two exposures, the later one after midnight of the day
\* it started on
C18_Witness ==
    \E p \in Units :
        /\ proc[p].pc = "transfer" /\ proc[p].i > 0
        /\ DayOf(now) > proc[p].obs_day
        /\ Cardinality(FilesOf(p)) > 1
        /\ << proc[p].temp_dir, proc[p].dest_path >> \in files

\* C19: two invocations with different HH:MM start times use disjoint sets
\* of sequence numbers, whatever their numbers of exposures.
C19_RunsDisjoint ==
    \A r, t \in DOMAIN runs :
        runs[r].starttime # runs[t].starttime
            => runs[r].used \cap runs[t].used = { }

\* C20: two units of a run (same start hour, start minute and interval)
\* that have constructed their Waiter have the same instant for every
\* exposure index, whenever each of them constructed it.
C20_SameSchedule ==
    \A p, q \in Units :
        (proc[p].base_time # -1 /\ proc[q].base_time # -1) =>
            \A i \in 0 .. MaxNumExp :
                When(proc[p].base_time, args.interval, i)
                    = When(proc[q].base_time, args.interval, i)

\* C21: a unit never forks and never joins: it is never at a program point
\* of the parent's loops, its copy of the loop variables never changes, every
\* process but the parent is a child of the parent, and the number of
\* processes ever forked is at most args.ccds, and exactly args.ccds once
\* the fork loop is done.
C21_UnitsDoNotFork ==
    /\ [](\A p \in Units :
            /\ proc[p].pc \in SimulatePcs \cup { "exited" }
            /\ proc[p].ppid = ParentPid
            /\ proc[p].job = 1)
    /\ [][ \A p \in Units :
             /\ proc'[p].jobs = proc[p].jobs
             /\ proc'[p].ccd = proc[p].ccd ]_vars
    /\ [](/\ Units = ParentPid + 1 .. nextPid - 1
          /\ Cardinality(Units) <= args.ccds
          /\ proc[ParentPid].pc # "fork" => Cardinality(Units) = args.ccds)

\* the parent has joined all its units, of which one returned from
\* simulate() and one left it by an exception, and no other process was made
C21_Witness ==
    /\ Joined
    /\ args.ccds = MaxCcds /\ MaxCcds > 1
    /\ nextPid = ParentPid + 1 + args.ccds
    /\ \E p, q \in Units :
          /\ Exited(p) /\ proc[p].status = 0
          /\ Len(OpsOf(p, "transfer")) = args.numexp /\ args.numexp > 0
          /\ Exited(q) /\ proc[q].status = 1 /\ proc[q].error = "OSError"

\* C22: the paths of a run are pairwise distinct: the path copy() returns to
\* a unit is, also up to its extension, the path of no file staged before,
\* by the unit itself for another exposure or by any other unit; two units
\* never transfer the same path and never have the same path staged.
C22_DistinctPaths ==
    /\ [][ \A p \in Units :
             (proc[p].pc = "copy" /\ proc'[p].pc = "transfer") =>
                 \A f \in files :
                     WithSuffix(f[2], ".fits")
                         # WithSuffix(proc'[p].dest_path, ".fits") ]_vars
    /\ [](\A p, q \in Units :
            (p # q /\ proc[p].pc = "transfer" /\ proc[q].pc = "transfer")
                => proc[p].dest_path # proc[q].dest_path)
    /\ [](\A f, g \in files : f[1] # g[1] => f[2] # g[2])

\* two units have each staged all their exposures and are about to transfer
\* the last one
C22_Witness ==
    \E p, q \in Units :
        /\ p # q /\ MaxNumExp > 1 /\ ~args.compress
        /\ proc[p].pc = "transfer" /\ proc[p].i = MaxNumExp - 1
        /\ proc[q].pc = "transfer" /\ proc[q].i = MaxNumExp - 1
        /\ Cardinality(FilesOf(p)) = MaxNumExp
        /\ Cardinality(FilesOf(q)) = MaxNumExp

====
